---------------------------- MODULE Spec2Model ----------------------------
(***************************************************************************)
(* A model of the Morpho markets relay: the GET /markets handler of the    *)
(* server file (src/unnamed/part_000) and the GraphQL fetcher              *)
(* fetchMorphoMarketsAPI (src/morphoMarkets.ts).                           *)
(*                                                                         *)
(* One behaviour is one request.  The handler is asynchronous: every       *)
(* action below is one synchronous segment of it (JavaScript runs such a   *)
(* segment to completion), and the external events (the GraphQL response,  *)
(* the body read, each chain call's return or failure) are the points      *)
(* where the environment chooses.                                          *)
(*                                                                         *)
(* JavaScript values of type `any` are tagged records, so that truthiness  *)
(* (x && y, x || y, x ?? y) is computed as the language computes it.       *)
(* The floating-point USD fields of the output record (token_price,        *)
(* total_supplied, total_borrowed, fee_percentage, optimal_usage_ratio,    *)
(* reserve_factor) are not modelled.                                       *)
(***************************************************************************)
EXTENDS Integers, Sequences, FiniteSets, TLC

\* ------------------------------------------------------------------ bounds

\* The longest item sequence the upstream GraphQL endpoint returns.
MaxItems == 4

\* ------------------------------------------------------ JavaScript values

Undefined == [t |-> "undefined"]
JNull == [t |-> "null"]
JStr(s) == [t |-> "string", s |-> s]
JNum(n) == [t |-> "number", n |-> n]
JArr(a) == [t |-> "array", a |-> a]
JObj(o) == [t |-> "object", o |-> o]

\* The object literal {} : an object with no own property.
EmptyFields == [k \in {} |-> Undefined]

\* ToBoolean: undefined, null, 0 and "" are falsy; objects and arrays are truthy.
Truthy(v) ==
    CASE v.t = "undefined" -> FALSE
      [] v.t = "null" -> FALSE
      [] v.t = "string" -> v.s # ""
      [] v.t = "number" -> v.n # 0
      [] OTHER -> TRUE

\* a || b
Or(a, b) == IF Truthy(a) THEN a ELSE b

\* typeof v === 'string'
IsString(v) == v.t = "string"

\* v.key where v is neither null nor undefined: an own property of an object,
\* undefined for a missing property and for a property of a primitive.
Get(v, key) ==
    IF v.t = "object" /\ key \in DOMAIN v.o THEN v.o[key] ELSE Undefined

\* v?.key : undefined when v is null or undefined.
OptGet(v, key) ==
    IF v.t \in {"null", "undefined"} THEN Undefined ELSE Get(v, key)

\* ---------------------------------------------------------------- numbers

DecDigits == <<"0", "1", "2", "3", "4", "5", "6", "7", "8", "9">>

\* Number.prototype.toString / BigNumber.toString of a non-negative integer:
\* its decimal digits, no sign, no leading zero.
RECURSIVE NumberToString(_)
NumberToString(n) ==
    IF n < 10 THEN DecDigits[n + 1]
    ELSE NumberToString(n \div 10) \o DecDigits[(n % 10) + 1]

HexDigits == <<"0", "1", "2", "3", "4", "5", "6", "7", "8", "9",
               "a", "b", "c", "d", "e", "f">>
HexDigitsUpper == <<"0", "1", "2", "3", "4", "5", "6", "7", "8", "9",
                    "A", "B", "C", "D", "E", "F">>

\* The value of character c as a digit in the given radix, or -1.
DigitValue(c, radix) ==
    IF \E i \in 1..radix : HexDigits[i] = c \/ HexDigitsUpper[i] = c
    THEN (CHOOSE i \in 1..radix : HexDigits[i] = c \/ HexDigitsUpper[i] = c) - 1
    ELSE -1

WhiteSpace == {" ", "\t", "\n", "\r"}

RECURSIVE TrimStart(_)
TrimStart(s) ==
    IF Len(s) > 0 /\ SubSeq(s, 1, 1) \in WhiteSpace THEN TrimStart(Tail(s)) ELSE s

\* The digits of s read from the left in the radix, stopping at the first
\* character that is no digit: [count |-> digits read, value |-> their value].
RECURSIVE ReadDigits(_, _, _, _)
ReadDigits(s, radix, count, acc) ==
    IF Len(s) = 0 \/ DigitValue(SubSeq(s, 1, 1), radix) < 0
    THEN [count |-> count, value |-> acc]
    ELSE ReadDigits(Tail(s), radix, count + 1,
                    acc * radix + DigitValue(SubSeq(s, 1, 1), radix))

\* parseInt(s) with no radix: leading white space skipped, an optional sign,
\* an optional 0x / 0X prefix selecting radix 16, then the longest digit
\* prefix; NaN when there is no digit.
parseInt(s) ==
    LET t == TrimStart(s)
        neg == Len(t) > 0 /\ SubSeq(t, 1, 1) = "-"
        u == IF Len(t) > 0 /\ SubSeq(t, 1, 1) \in {"-", "+"} THEN Tail(t) ELSE t
        hex == Len(u) >= 2 /\ SubSeq(u, 1, 2) \in {"0x", "0X"}
        d == IF hex THEN ReadDigits(SubSeq(u, 3, Len(u)), 16, 0, 0)
                    ELSE ReadDigits(u, 10, 0, 0)
    IN  IF d.count = 0 THEN [nan |-> TRUE, n |-> 0]
        ELSE [nan |-> FALSE, n |-> IF neg THEN 0 - d.value ELSE d.value]

\* ------------------------------------------------- the upstream's answers

MORPHO_API_URL == "https://api.morpho.org/graphql"
INTEREST_RATE_MODEL_ADDRESS == "0x870aC11D48B15DB9a138Cf899d20F13F79Ba00BC"
ZeroAddress == "0x0000000000000000000000000000000000000000"

\* The k-th market the upstream lists, as JSON.parse yields it: a
\* FetchedMorphoMarket.  The optional parts vary with k: market 1 has a
\* collateral asset, a chain and a reward entry; market 2 has no collateral
\* asset, no chain and an empty reward list; market 3 has rewards null; market
\* 4 has a null lltv (so that building its call arguments throws); and so on.
Market(k) ==
    [uniqueKey |-> "0xmarket" \o NumberToString(k),
     loanAsset |->
        [address |-> "0xA0b86991c6218b36c1d19D4a2e9Eb0cE3606eB48",
         symbol |-> "USDC",
         chain |-> IF k % 3 = 2 THEN JNull
                   ELSE JObj([network |-> JStr("ethereum")])],
     collateralAsset |->
        IF k % 3 = 2 THEN JNull
        ELSE JObj([address |-> JStr("0xcollateral" \o NumberToString(k))]),
     oracleAddress |-> "0xoracle" \o NumberToString(k),
     irmAddress |-> INTEREST_RATE_MODEL_ADDRESS,
     lltv |-> IF k % 4 = 0 THEN JNull ELSE JStr("860000000000000000"),
     state |->
        [supplyAssets |-> "1000000",
         borrowAssets |-> "500000",
         supplyShares |-> "1000000000000",
         borrowShares |-> "500000000000",
         timestamp |-> 1700000000 + k,
         fee |-> 0,
         rewards |->
            CASE k % 3 = 1 ->
                    JArr(<<[yearlySupplyTokens |-> "42" \o NumberToString(k),
                            asset |-> [decimals |-> 6, priceUsd |-> "1.5"]]>>)
              [] k % 3 = 2 -> JArr(<<>>)
              [] OTHER -> JNull]]

Markets(n) == [k \in 1..n |-> Market(k)]

\* Response texts.  A market's JSON text is abbreviated to its unique key.
RECURSIVE MarketsText(_)
MarketsText(n) ==
    IF n = 0 THEN ""
    ELSE MarketsText(n - 1) \o (IF n > 1 THEN "," ELSE "")
         \o "{\"uniqueKey\":\"" \o Market(n).uniqueKey \o "\"}"

ItemsText(n) == "{\"data\":{\"markets\":{\"items\":[" \o MarketsText(n) \o "]}}}"

EmptyText == ""
HtmlText == "<html>502 Bad Gateway</html>"
NullText == "null"
ZeroText == "0"
ErrorsText == "{\"errors\":[{\"message\":\"boom\"}]}"
NoMarketsText == "{\"data\":{}}"
NullItemsText == "{\"data\":{\"markets\":{\"items\":null}}}"

\* The bodies the upstream may answer with, under any status.
Bodies ==
    {EmptyText, HtmlText, NullText, ZeroText, ErrorsText, NoMarketsText,
     NullItemsText} \cup {ItemsText(n) : n \in 0..MaxItems}

\* The statuses the upstream may answer with.
Statuses == {200, 404, 500}

\* JSON.parse(text): [ok |-> TRUE, value |-> the value], or ok FALSE where
\* JSON.parse throws a SyntaxError (the empty text, the HTML page).
JSONparse(text) ==
    CASE text = NullText -> [ok |-> TRUE, value |-> JNull]
      [] text = ZeroText -> [ok |-> TRUE, value |-> JNum(0)]
      [] text = ErrorsText ->
            [ok |-> TRUE,
             value |-> JObj([errors |-> JArr(<<JObj([message |-> JStr("boom")])>>)])]
      [] text = NoMarketsText ->
            [ok |-> TRUE, value |-> JObj([data |-> JObj(EmptyFields)])]
      [] text = NullItemsText ->
            [ok |-> TRUE,
             value |-> JObj([data |-> JObj([markets |-> JObj([items |-> JNull])])])]
      [] \E n \in 0..MaxItems : text = ItemsText(n) ->
            LET n == CHOOSE m \in 0..MaxItems : text = ItemsText(m)
            IN  [ok |-> TRUE,
                 value |-> JObj([data |->
                              JObj([markets |-> JObj([items |-> JArr(Markets(n))])])])]
      [] OTHER -> [ok |-> FALSE, value |-> Undefined]

\* response.ok
ResponseOk(status) == status \in 200..299

\* ----------------------------------------------------------------- errors

\* A thrown value: a plain object literal (ctor "Object") or a native Error;
\* a property it does not have is Undefined.
Thrown(ctor, message, status, details, rawResponse) ==
    [ctor |-> ctor, message |-> message, status |-> status,
     details |-> details, rawResponse |-> rawResponse]

NativeError(ctor, message) ==
    Thrown(ctor, JStr(message), Undefined, Undefined, Undefined)

\* A thrown value used as a value (error.message || error).
ErrorValue(e) == [t |-> "error", e |-> e]

\* ------------------------------------------------------- morphoMarkets.ts

\* Variant: saveRawResponse without its try/catch, a failed write throwing.
saveRawResponse_Propagates(file, text, writeOk) ==
    [file |-> IF writeOk THEN [exists |-> TRUE, content |-> text] ELSE file,
     threw |-> ~writeOk]

\* saveRawResponse(text), the write succeeding or not: the file afterwards
\* and whether the function throws.  The write is inside try/catch.
saveRawResponse(file, text, writeOk) ==
    [file |-> IF writeOk THEN [exists |-> TRUE, content |-> text] ELSE file,
     threw |-> FALSE]

\* What the try block of handleGraphQLError throws: its own object literal
\* when the text parses, JSON.parse's SyntaxError when it does not.
HandleGraphQLErrorTry(status, text) ==
    IF JSONparse(text).ok
    THEN Thrown("Object", JStr("HTTP error! status: " \o NumberToString(status)),
                JNum(status), JSONparse(text).value, Undefined)
    ELSE NativeError("SyntaxError", "Unexpected token in JSON")

\* catch (e) of handleGraphQLError: whatever e is, throws the "not JSON" object.
HandleGraphQLErrorCatch(e, status, text) ==
    Thrown("Object",
           JStr("HTTP error! status: " \o NumberToString(status)
                \o ". Response not JSON: " \o text),
           JNum(status), Undefined, JStr(text))

\* handleGraphQLError(response, text): never returns; the value it throws.
handleGraphQLError(status, text) ==
    HandleGraphQLErrorCatch(HandleGraphQLErrorTry(status, text), status, text)

SchemaMismatch(result) ==
    Thrown("Object",
           JStr("GraphQL query successful but data not in expected structure"),
           JNum(500), result, Undefined)

\* The try block of fetchMorphoMarketsAPI from the body text on: the items
\* it returns, or the value it throws.
FetchTry(status, text, saveThrew) ==
    IF saveThrew
    THEN [kind |-> "throw", error |-> NativeError("Error", "EACCES: permission denied")]
    ELSE IF ~ResponseOk(status)
    THEN [kind |-> "throw", error |-> handleGraphQLError(status, text)]
    ELSE IF ~JSONparse(text).ok
    THEN [kind |-> "throw",
          error |-> NativeError("SyntaxError", "Unexpected token in JSON")]
    ELSE LET result == JSONparse(text).value
         IN  IF result.t = "null"
             THEN [kind |-> "throw",
                   error |-> NativeError("TypeError",
                                "Cannot read properties of null (reading 'data')")]
             ELSE LET items == OptGet(OptGet(Get(result, "data"), "markets"), "items")
                  IN  IF Truthy(items)
                      THEN [kind |-> "return", items |-> items]
                      ELSE [kind |-> "throw", error |-> SchemaMismatch(result)]

\* catch (error) of fetchMorphoMarketsAPI: the value it throws.
FetchCatch(error) ==
    IF Truthy(error.status) /\ Truthy(error.details) THEN error
    ELSE IF Truthy(error.status) /\ Truthy(error.rawResponse) THEN error
    ELSE Thrown("Object",
                JStr("Failed to fetch or parse data from Morpho API."),
                Or(error.status, JNum(500)),
                Or(error.message, ErrorValue(error)),
                Undefined)

\* The outcome of fetchMorphoMarketsAPI once something happened in its try.
FetchSettle(tried) ==
    IF tried.kind = "return"
    THEN [kind |-> "items", items |-> tried.items]
    ELSE [kind |-> "error", error |-> FetchCatch(tried.error)]

\* ------------------------------------------------------ the server file

\* `${v}` in a template literal.
TemplateString(v) ==
    CASE v.t = "string" -> v.s
      [] v.t = "number" -> NumberToString(v.n)
      [] v.t = "null" -> "null"
      [] OTHER -> "undefined"

\* market.lltv.toString() throws a TypeError when lltv is null.
BuildThrows(market) == market.lltv.t = "null"

buildMarketParams(market) ==
    [loanToken |-> market.loanAsset.address,
     collateralToken |->
        Or(OptGet(market.collateralAsset, "address"), JStr(ZeroAddress)).s,
     oracle |-> market.oracleAddress,
     irm |-> market.irmAddress,
     lltv |-> market.lltv.s]

buildMarketStruct(market) ==
    [totalSupplyAssets |-> market.state.supplyAssets,
     totalSupplyShares |-> market.state.supplyShares,
     totalBorrowAssets |-> market.state.borrowAssets,
     totalBorrowShares |-> market.state.borrowShares,
     lastUpdate |-> NumberToString(market.state.timestamp),
     fee |-> NumberToString(market.state.fee)]

\* The ways contract.borrowRateView fails once it is called.
CallFailures == {"network", "revert", "decode"}

\* The rates the contract may return.
Rates == {0, 12}

\* What getBorrowRateFromContract resolves to, given what happened inside its
\* try block: the rate as a decimal string, or null after any exception.
getBorrowRateFromContract(outcome) ==
    IF outcome.kind = "ok" THEN JStr(NumberToString(outcome.rate)) ELSE JNull

\* Variant: the line without its `?? "0"`.
ratePerSecond_NoDefault(rate) == rate

\* await getBorrowRateFromContract(market) ?? "0"
ratePerSecond(rate) ==
    IF rate.t \in {"null", "undefined"} THEN JStr("0") ELSE rate

\* transformMarketData(market), given what its chain call came to.
transformMarketData(market, outcome) ==
    LET network == Or(OptGet(market.loanAsset.chain, "network"), JStr("Unknown")).s
        rewards == market.state.rewards
        hasReward == Truthy(rewards) /\ Len(rewards.a) > 0
        marketName ==
            IF Truthy(market.collateralAsset)
            THEN TemplateString(Get(market.collateralAsset, "symbol")) \o "/"
                 \o market.loanAsset.symbol \o " Market"
            ELSE market.loanAsset.symbol \o " Market"
    IN  [id |-> market.uniqueKey,
         name |-> marketName,
         network |-> network,
         protocol |-> "Morpho",
         source |-> "Morpho " \o network,
         yearlySupplyTokens |->
            IF hasReward THEN rewards.a[1].yearlySupplyTokens ELSE "0",
         rewardTokenDecimals |->
            IF hasReward THEN rewards.a[1].asset.decimals ELSE 18,
         rewardTokenPriceUsd |->
            IF hasReward THEN rewards.a[1].asset.priceUsd ELSE "0",
         rate_per_second |-> ratePerSecond(getBorrowRateFromContract(outcome))]

\* Variant: only the typeof test, so that the empty string passes.
ValidAddress_TypeOnly(v) == IsString(v)

\* loanAssetAddress && typeof loanAssetAddress === 'string'
ValidAddress(v) == Truthy(v) /\ IsString(v)

MissingAddressMessage == "Missing or invalid required query parameter: loanAssetAddress"

\* Variant: the filter without the whitelisted flag.
BuildWhere_NoWhitelist(address) == [loanAssetAddress_in |-> address]

BuildWhere(address) == [loanAssetAddress_in |-> address, whitelisted |-> TRUE]

\* The default page size of the handler.
DefaultFirst == 10

\* The handling of the `first` parameter: the fields it adds to variables.
FirstField(first) ==
    IF Truthy(first) /\ IsString(first)
    THEN IF ~parseInt(first.s).nan /\ parseInt(first.s).n > 0
         THEN [k \in {"first"} |-> parseInt(first.s).n]
         ELSE EmptyFields
    ELSE [k \in {"first"} |-> DefaultFirst]

OrderByField(orderBy) ==
    IF Truthy(orderBy) /\ IsString(orderBy)
    THEN [k \in {"orderBy"} |-> orderBy.s]
    ELSE EmptyFields

\* The FetchMarketsVariables the handler builds for a valid request.
BuildVariables(query) ==
    [k \in {"where"} |-> BuildWhere(query.loanAssetAddress.s)]
        @@ FirstField(query.first) @@ OrderByField(query.orderBy)

\* The catch block of the handler: the response it sends.
ErrorResponse(error) ==
    [status |-> Or(error.status, JNum(500)).n,
     kind |-> "error",
     body |->
        [error |-> Or(error.message, JStr("An internal server error occurred")),
         details |->
            Or(error.details,
               IF Truthy(error.rawResponse)
               THEN JObj([rawResponse |-> error.rawResponse])
               ELSE IF Truthy(error.message) THEN JNull ELSE ErrorValue(error))]]

\* Variant: the values collected in the order the promises resolve.
PromiseAllStore_CompletionOrder(slots, i, value) ==
    LET free == CHOOSE j \in DOMAIN slots :
                    ~slots[j].filled /\ \A h \in 1..(j - 1) : slots[h].filled
    IN  [slots EXCEPT ![free] = [filled |-> TRUE, value |-> value]]

\* Promise.all: the value of the i-th promise goes to the i-th slot.
PromiseAllStore(slots, i, value) ==
    [slots EXCEPT ![i] = [filled |-> TRUE, value |-> value]]

\* What a slot holds: the promise's value, nothing while it is pending.
SlotValue(slot) == IF slot.filled THEN slot.value ELSE Undefined

\* Variant: resolving as soon as one promise has (Promise.race / Promise.any).
PromiseAllReady_Any(slots) ==
    slots = <<>> \/ \E i \in DOMAIN slots : slots[i].filled

\* Promise.all resolves when every promise has.
PromiseAllReady(slots) == \A i \in DOMAIN slots : slots[i].filled

\* ------------------------------------------------------------ the request

AddressA == "0xA0b86991c6218b36c1d19D4a2e9Eb0cE3606eB48"
AddressB == "0xdAC17F958D2ee523a2206206994597C13D831ec7"

\* req.query.loanAssetAddress: absent, empty, a string, an array (a repeated
\* parameter) or an object (loanAssetAddress[a]=b).
AddressParams ==
    {Undefined, JStr(""), JStr(AddressA), JStr(AddressB),
     JArr(<<JStr(AddressA), JStr(AddressB)>>), JObj([a |-> JStr("b")])}

FirstParams ==
    {Undefined, JStr(""), JStr("5"), JStr("-1"), JStr("0"), JStr("abc"),
     JArr(<<JStr("5"), JStr("6")>>)}

OrderByParams == {Undefined, JStr("SupplyApy")}

NoResponse == [status |-> 0, body |-> ""]
NoFile == [exists |-> FALSE, content |-> ""]

VARIABLES
    pc,                \* where the handler is
    req,               \* req.query
    gqlCalls,          \* the POSTs made to the GraphQL endpoint
    response,          \* the upstream's Response
    responseBodyText,  \* await response.text()
    bodyRead,          \* whether response.text() resolved
    rawFile,           \* raw_graphql_response.json
    saveLog,           \* the calls of saveRawResponse
    fetchResult,       \* what fetchMorphoMarketsAPI settled to
    tasks,             \* per fetched market, what its chain call came to
    chainCalls,        \* the borrowRateView calls made
    transformedData,   \* the slots of Promise.all
    firstSettled,      \* the index of the promise that resolved first
    resLog             \* the responses sent on res

vars == <<pc, req, gqlCalls, response, responseBodyText, bodyRead, rawFile, saveLog,
          fetchResult, tasks, chainCalls, transformedData, firstSettled, resLog>>

Init ==
    /\ pc = "start"
    /\ req \in [loanAssetAddress : AddressParams, first : FirstParams,
                orderBy : OrderByParams]
    /\ gqlCalls = <<>>
    /\ response = NoResponse
    /\ responseBodyText = ""
    /\ bodyRead = FALSE
    /\ rawFile = NoFile
    /\ saveLog = <<>>
    /\ fetchResult = [kind |-> "none"]
    /\ tasks = <<>>
    /\ chainCalls = <<>>
    /\ transformedData = <<>>
    /\ firstSettled = 0
    /\ resLog = <<>>

\* The handler up to `await fetchMorphoMarketsAPI(variables)`, which runs the
\* fetcher up to `await fetch(...)`; or the 400 response.
HandleRequest ==
    /\ pc = "start"
    /\ IF ValidAddress(req.loanAssetAddress)
       THEN /\ gqlCalls' = Append(gqlCalls,
                    [url |-> MORPHO_API_URL, method |-> "POST",
                     variables |-> BuildVariables(req)])
            /\ pc' = "await_fetch"
            /\ UNCHANGED resLog
       ELSE /\ resLog' = Append(resLog,
                    [status |-> 400, kind |-> "missing",
                     body |-> [error |-> MissingAddressMessage]])
            /\ pc' = "done"
            /\ UNCHANGED gqlCalls
    /\ UNCHANGED <<req, response, responseBodyText, bodyRead, rawFile, saveLog, fetchResult,
                   tasks, chainCalls, transformedData, firstSettled>>

\* fetch(...) resolves with the upstream's response.
FetchResolve ==
    /\ pc = "await_fetch"
    /\ \E status \in Statuses, body \in Bodies :
          response' = [status |-> status, body |-> body]
    /\ pc' = "await_text"
    /\ UNCHANGED <<req, gqlCalls, responseBodyText, bodyRead, rawFile, saveLog, fetchResult,
                   tasks, chainCalls, transformedData, firstSettled, resLog>>

\* fetch(...) rejects (no connection): the catch block of the fetcher runs.
FetchReject ==
    /\ pc = "await_fetch"
    /\ fetchResult' = FetchSettle([kind |-> "throw",
                                   error |-> NativeError("TypeError", "fetch failed")])
    /\ pc' = "fetched"
    /\ UNCHANGED <<req, gqlCalls, response, responseBodyText, bodyRead, rawFile, saveLog,
                   tasks, chainCalls, transformedData, firstSettled, resLog>>

\* response.text() resolves with the body.
TextResolve ==
    /\ pc = "await_text"
    /\ responseBodyText' = response.body
    /\ bodyRead' = TRUE
    /\ pc' = "save"
    /\ UNCHANGED <<req, gqlCalls, response, rawFile, saveLog, fetchResult,
                   tasks, chainCalls, transformedData, firstSettled, resLog>>

\* response.text() rejects (the connection drops while the body is read).
TextReject ==
    /\ pc = "await_text"
    /\ fetchResult' = FetchSettle([kind |-> "throw",
                                   error |-> NativeError("TypeError", "terminated")])
    /\ pc' = "fetched"
    /\ UNCHANGED <<req, gqlCalls, response, responseBodyText, bodyRead, rawFile, saveLog,
                   tasks, chainCalls, transformedData, firstSettled, resLog>>

\* saveRawResponse(responseBodyText); the write succeeds or fails.
SaveRaw ==
    /\ pc = "save"
    /\ \E writeOk \in BOOLEAN :
          LET saved == saveRawResponse(rawFile, responseBodyText, writeOk)
          IN  /\ rawFile' = saved.file
              /\ saveLog' = Append(saveLog,
                    [text |-> responseBodyText, writeOk |-> writeOk,
                     threw |-> saved.threw])
    /\ pc' = "decide"
    /\ UNCHANGED <<req, gqlCalls, response, responseBodyText, bodyRead, fetchResult,
                   tasks, chainCalls, transformedData, firstSettled, resLog>>

\* The rest of the fetcher: the status check, the parse, the shape check.
Decide ==
    /\ pc = "decide"
    /\ fetchResult' = FetchSettle(FetchTry(response.status, responseBodyText,
                                           saveLog[Len(saveLog)].threw))
    /\ pc' = "fetched"
    /\ UNCHANGED <<req, gqlCalls, response, responseBodyText, bodyRead, rawFile, saveLog,
                   tasks, chainCalls, transformedData, firstSettled, resLog>>

\* The handler resumes with a rejection: its catch block responds.
HandlerCatch ==
    /\ pc = "fetched"
    /\ fetchResult.kind = "error"
    /\ resLog' = Append(resLog, ErrorResponse(fetchResult.error))
    /\ pc' = "done"
    /\ UNCHANGED <<req, gqlCalls, response, responseBodyText, bodyRead, rawFile, saveLog,
                   fetchResult, tasks, chainCalls, transformedData, firstSettled>>

\* The handler resumes with the items and enters fetchedMarkets.map(...).
HandlerMap ==
    /\ pc = "fetched"
    /\ fetchResult.kind = "items"
    /\ LET n == Len(fetchResult.items.a)
       IN  /\ tasks' = [i \in 1..n |-> [kind |-> "new", rate |-> 0]]
           /\ transformedData' = [i \in 1..n |-> [filled |-> FALSE]]
           /\ pc' = IF n = 0 THEN "await_all" ELSE "map"
    /\ UNCHANGED <<req, gqlCalls, response, responseBodyText, bodyRead, rawFile, saveLog,
                   fetchResult, chainCalls, firstSettled, resLog>>

\* The next market not yet started.
NextNew == CHOOSE i \in DOMAIN tasks :
              tasks[i].kind = "new" /\ \A j \in 1..(i - 1) : tasks[j].kind # "new"

\* One call of the map callback: transformMarketData(market) runs up to its
\* await.  Building the call arguments throws (the chain is never called and
\* the promise resolves with rate null), or borrowRateView is called.
Launch ==
    /\ pc = "map"
    /\ LET i == NextNew
           market == fetchResult.items.a[i]
       IN  /\ IF BuildThrows(market)
              THEN /\ tasks' = [tasks EXCEPT ![i] = [kind |-> "build", rate |-> 0]]
                   /\ transformedData' = PromiseAllStore(transformedData, i,
                          transformMarketData(market, [kind |-> "build", rate |-> 0]))
                   /\ UNCHANGED chainCalls
              ELSE /\ tasks' = [tasks EXCEPT ![i] = [kind |-> "pending", rate |-> 0]]
                   /\ chainCalls' = Append(chainCalls,
                          [to |-> INTEREST_RATE_MODEL_ADDRESS,
                           market |-> market.uniqueKey,
                           marketParams |-> buildMarketParams(market),
                           marketStruct |-> buildMarketStruct(market)])
                   /\ UNCHANGED transformedData
           /\ pc' = IF i = Len(tasks) THEN "await_all" ELSE "map"
    /\ UNCHANGED <<req, gqlCalls, response, responseBodyText, bodyRead, rawFile, saveLog,
                   fetchResult, firstSettled, resLog>>

\* A chain call settles with `outcome`: the market's promise resolves.
ChainSettle(i, outcome) ==
    /\ pc = "await_all"
    /\ tasks[i].kind = "pending"
    /\ tasks' = [tasks EXCEPT ![i] = outcome]
    /\ transformedData' = PromiseAllStore(transformedData, i,
            transformMarketData(fetchResult.items.a[i], outcome))
    /\ firstSettled' = IF firstSettled = 0 THEN i ELSE firstSettled
    /\ UNCHANGED <<pc, req, gqlCalls, response, responseBodyText, bodyRead, rawFile, saveLog,
                   fetchResult, chainCalls, resLog>>

\* borrowRateView returns a rate.
ChainReturn ==
    \E i \in DOMAIN tasks, rate \in Rates :
        ChainSettle(i, [kind |-> "ok", rate |-> rate])

\* borrowRateView fails: no answer from the node, a revert, an undecodable answer.
ChainFail ==
    \E i \in DOMAIN tasks, failure \in CallFailures :
        ChainSettle(i, [kind |-> failure, rate |-> 0])

\* Promise.all resolves and the handler sends the array.
PromiseAllResolves ==
    /\ pc = "await_all"
    /\ PromiseAllReady(transformedData)
    /\ resLog' = Append(resLog,
            [status |-> 200, kind |-> "array",
             body |-> [i \in DOMAIN transformedData |-> SlotValue(transformedData[i])]])
    /\ pc' = "done"
    /\ UNCHANGED <<req, gqlCalls, response, responseBodyText, bodyRead, rawFile, saveLog,
                   fetchResult, tasks, chainCalls, transformedData, firstSettled>>

Next ==
    \/ HandleRequest
    \/ FetchResolve
    \/ FetchReject
    \/ TextResolve
    \/ TextReject
    \/ SaveRaw
    \/ Decide
    \/ HandlerCatch
    \/ HandlerMap
    \/ Launch
    \/ ChainReturn
    \/ ChainFail
    \/ PromiseAllResolves

Spec == Init /\ [][Next]_vars

\* The event loop runs every continuation that is ready, and every chain
\* call made eventually returns or fails.
FairSpec ==
    /\ Spec
    /\ WF_vars(HandlerMap)
    /\ WF_vars(Launch)
    /\ WF_vars(ChainReturn \/ ChainFail)
    /\ WF_vars(PromiseAllResolves)

\* ----------------------------------------------------------- properties

\* The upstream answered and its body was read.
BodyWasRead == bodyRead /\ response # NoResponse

Parsed == JSONparse(response.body)

\* The request's loanAssetAddress is a non-empty string.
AddressGiven ==
    IF req.loanAssetAddress.t = "string" THEN req.loanAssetAddress.s # "" ELSE FALSE

\* The fetch succeeded: the fetcher returned an item sequence.
FetchedItems == fetchResult.kind = "items"

Settled(task) == task.kind \notin {"new", "pending"}

\* C1: when the upstream answers a non-2xx status with a body that parses as
\* JSON, the endpoint responds with that status and with `details` equal to
\* the parsed body.  Stated for the bodies that parse to a JSON object, such
\* as {errors:[...]}.
C1_ParsedErrorBodyIsDetails ==
    (/\ pc = "done" /\ BodyWasRead /\ ~ResponseOk(response.status)
     /\ Parsed.ok /\ Parsed.value.t = "object")
    => /\ Len(resLog) = 1
       /\ resLog[1].status = response.status
       /\ resLog[1].body.details = Parsed.value

\* C2: the `first` of the outbound variables is always set and positive: the
\* parsed value when the parameter is a string parsing to a positive integer,
\* the default 10 in every other case.
C2_FirstIsSetAndPositive ==
    \A c \in DOMAIN gqlCalls :
        LET v == gqlCalls[c].variables
            given == IF req.first.t = "string" THEN parseInt(req.first.s)
                     ELSE [nan |-> TRUE, n |-> 0]
        IN  /\ "first" \in DOMAIN v
            /\ v.first > 0
            /\ v.first = IF ~given.nan /\ given.n > 0 THEN given.n ELSE 10

C4_MissingAddressRejected ==
    ~AddressGiven =>
        /\ gqlCalls = <<>>
        /\ chainCalls = <<>>
        /\ pc # "start" =>
              /\ pc = "done"
              /\ resLog = <<[status |-> 400, kind |-> "missing",
                             body |-> [error |->
                                "Missing or invalid required query parameter: loanAssetAddress"]]>>

\* The empty loanAssetAddress answered with 400.
C4_Witness ==
    /\ pc = "done"
    /\ req.loanAssetAddress = JStr("")
    /\ Len(resLog) = 1
    /\ resLog[1].status = 400

\* C5: a request with a non-empty string loanAssetAddress makes exactly one
\* GraphQL call by the time it responds, never more, and the call's variables
\* carry where.whitelisted = true and where.loanAssetAddress_in equal to the
\* address as given.
C5_ExactlyOneGraphQLCall ==
    AddressGiven =>
        /\ Len(gqlCalls) <= 1
        /\ pc # "start" => Len(gqlCalls) = 1
        /\ resLog # <<>> => Len(gqlCalls) = 1
        /\ \A c \in DOMAIN gqlCalls :
              gqlCalls[c].variables.where
                 = [loanAssetAddress_in |-> req.loanAssetAddress.s, whitelisted |-> TRUE]

\* An upstream failure answered, after one call and no retry.
C5_Witness ==
    /\ pc = "done"
    /\ AddressGiven
    /\ response.status = 500
    /\ Len(resLog) = 1
    /\ resLog[1].status = 500
    /\ Len(gqlCalls) = 1
    /\ gqlCalls[1].variables.where.loanAssetAddress_in = AddressB

\* The value at data.markets.items of a parsed payload (undefined when the
\* path is missing).
ItemsAt(v) == OptGet(OptGet(OptGet(v, "data"), "markets"), "items")

\* C6: a 2xx answer whose JSON payload lacks data.markets.items makes the
\* fetcher fail with status 500 and `details` equal to the parsed payload, no
\* chain call is made and the endpoint responds 500 with that error's message
\* and details; when items is present, also when empty, it is returned as is.
C6_SchemaMismatchCarriesPayload ==
    (pc = "done" /\ BodyWasRead /\ ResponseOk(response.status) /\ Parsed.ok)
    => IF ItemsAt(Parsed.value).t \in {"undefined", "null"}
       THEN /\ fetchResult.kind = "error"
            /\ fetchResult.error.status = JNum(500)
            /\ fetchResult.error.details = Parsed.value
            /\ chainCalls = <<>>
            /\ resLog = <<[status |-> 500, kind |-> "error",
                           body |-> [error |-> fetchResult.error.message,
                                     details |-> fetchResult.error.details]]>>
       ELSE /\ fetchResult.kind = "items"
            /\ fetchResult.items = ItemsAt(Parsed.value)

\* C7: on the success path the i-th element of the response is the
\* transformation of the i-th fetched item, in whatever order the chain calls
\* complete: same length, and output[i].id = items[i].uniqueKey.
C7_OrderPreserved ==
    FetchedItems =>
        /\ \A i \in DOMAIN transformedData :
              transformedData[i].filled
                 => transformedData[i].value.id = fetchResult.items.a[i].uniqueKey
        /\ pc = "done" =>
              /\ Len(resLog[1].body) = Len(fetchResult.items.a)
              /\ \A i \in DOMAIN resLog[1].body :
                    resLog[1].body[i].id = fetchResult.items.a[i].uniqueKey

\* Three or more markets, the third one's call completing first, one call
\* failing and one returning, and the response sent.
C7_Witness ==
    /\ pc = "done"
    /\ FetchedItems
    /\ Len(tasks) >= 3
    /\ firstSettled = 3
    /\ \E i \in DOMAIN tasks : tasks[i].kind \in CallFailures
    /\ \E i \in DOMAIN tasks : tasks[i].kind = "ok"
    /\ resLog[1].kind = "array"

\* C8: a non-2xx answer whose body does not parse as JSON makes the fetcher
\* fail with an error carrying the upstream status and the raw body text in
\* its raw-body field, and the endpoint responds with that status and with
\* details exposing the raw body.
C8_RawBodyCarried ==
    (pc = "done" /\ BodyWasRead /\ ~ResponseOk(response.status) /\ ~Parsed.ok)
    => /\ fetchResult.kind = "error"
       /\ fetchResult.error.status = JNum(response.status)
       /\ fetchResult.error.rawResponse = JStr(response.body)
       /\ Len(resLog) = 1
       /\ resLog[1].status = response.status
       /\ resLog[1].body.details = JObj([rawResponse |-> JStr(response.body)])

\* The state part of C9: at most one response; every market's step is started
\* before any chain call's result is taken; a response is sent only when no
\* step is unstarted or pending, and the array sent has every item.
C9_Safety ==
    /\ Len(resLog) <= 1
    /\ pc = "await_all" => \A i \in DOMAIN tasks : tasks[i].kind # "new"
    /\ (\E i \in DOMAIN tasks : tasks[i].kind \in CallFailures \cup {"ok"})
          => \A j \in DOMAIN tasks : tasks[j].kind # "new"
    /\ resLog # <<>> => \A i \in DOMAIN tasks : Settled(tasks[i])
    /\ (resLog # <<>> /\ FetchedItems)
          => /\ resLog[1].kind = "array"
             /\ Len(resLog[1].body) = Len(fetchResult.items.a)

C10_SaveBeforeBranchingAndHarmless ==
    /\ Len(saveLog) <= 1
    /\ pc \in {"save", "decide"} => fetchResult.kind = "none"
    /\ pc = "save" => saveLog = <<>>
    /\ (BodyWasRead /\ pc # "save") =>
          /\ Len(saveLog) = 1
          /\ saveLog[1].text = response.body
          /\ saveLog[1].writeOk => rawFile = [exists |-> TRUE, content |-> response.body]
          /\ ~saveLog[1].writeOk => rawFile = NoFile
    /\ (BodyWasRead /\ fetchResult.kind # "none") =>
          fetchResult = FetchSettle(FetchTry(response.status, response.body, FALSE))

\* Items returned although the write of the raw body failed.
C10_Witness ==
    /\ FetchedItems
    /\ Len(fetchResult.items.a) > 0
    /\ Len(saveLog) = 1
    /\ ~saveLog[1].writeOk
    /\ rawFile = NoFile

=============================================================================
